---- MODULE Spec2Model ----
(***************************************************************************)
(* The scrape-then-enrich pipeline of job_search_AI.py (__main__) and the  *)
(* scraper scrape_linkedin_jobs of job_search.py.                          *)
(*                                                                         *)
(* The two files ./offers/Jobs_.txt and ./offers/Jobs_relevant_.json are   *)
(* modelled as token sequences written by json.dump and parsed by          *)
(* json.load; open(..., "w") truncates the file before anything is         *)
(* written, and the text is complete only when the with-block closes.      *)
(* Every reachable state is a point where the process may be interrupted.  *)
(* Confidence values are counted in tenths (7 is 0.7, 15 is 1.5).          *)
(***************************************************************************)
EXTENDS Integers, Sequences, FiniteSets, TLC

VARIABLES
    pc,               \* position of the process in __main__ / scrape_linkedin_jobs
    error,            \* the exception that ended the run, "" while none
    query_response,   \* the planner model's answer, as received
    queries,          \* queries_data.queries
    start_index,      \* the pagination offset of the batch in progress
    qi,               \* index in queries of the query in progress
    id_lists,         \* identifiers of the current page not fetched yet
    response,         \* status code of the last HTTP response
    job_info_lists,   \* the in-memory list of job records
    jobs_summary,     \* the in-memory list of enriched jobs
    ji,               \* index in job_info_lists of the job being enriched
    summary,          \* the JobSummary of the job being enriched
    jobsFile,         \* ./offers/Jobs_.txt
    resultFile,       \* ./offers/Jobs_relevant_.json
    listing_ids,      \* what the listing endpoint answers (environment)
    model_verdict,    \* what the relevance model answers when well-formed (environment)
    faults,           \* failed HTTP responses the environment may still produce
    requests,         \* number of HTTP requests issued so far
    model_calls,      \* number of ollama.chat calls issued so far
    jobsFile0,        \* ./offers/Jobs_.txt as it was when the run started
    resultFile0,      \* ./offers/Jobs_relevant_.json as it was when the run started
    jobs_loaded,      \* the list as loaded at the start of the batch in progress
    jobsFile_before,  \* ./offers/Jobs_.txt as it was when the save in progress opened it
    detail_page       \* the page the detail endpoint serves (environment)

vars == <<pc, error, query_response, queries, start_index, qi, id_lists, response,
          job_info_lists, jobs_summary, ji, summary, jobsFile, resultFile, listing_ids,
          model_verdict, faults, requests, model_calls, jobsFile0, resultFile0,
          jobs_loaded, jobsFile_before, detail_page>>

----------------------------------------------------------------------------
(* Bounds of the model *)

MaxIds == 2
MaxQueries == 2
MaxFaults == 1
MaxPrior == 1

(* Program constants *)

MAX_SCRAPE == 125
PAGE_STEP == 25
HTTP_OK == 200

----------------------------------------------------------------------------
(* Job detail pages and the field extraction (job_search.py 59-89) *)

NoneValue == "None"

\* An element of a detail page: absent, or present with its stripped text.
Absent == [present |-> FALSE, text |-> "", href |-> NoneValue]

Element(t) == [present |-> TRUE, text |-> t, href |-> NoneValue]

Anchor(t, h) == [present |-> TRUE, text |-> t, href |-> h]

safe_text(tag) == IF tag.present THEN tag.text ELSE "Unknown"

organisation_url_of(tag) == IF tag.present THEN tag.href ELSE "Unknown"

applicants_tag_of(page) ==
    IF page.figcaption.present THEN page.figcaption ELSE page.span

job_url_of(job_id) == <<"https://www.linkedin.com/jobs-guest/jobs/api/jobPosting/", job_id>>

ExtractRecord(job_id, page) ==
    [ title             |-> safe_text(page.h2),
      organisation_name |-> safe_text(page.a),
      organisation_url  |-> organisation_url_of(page.a),
      description       |-> safe_text(page.div),
      criteria          |-> safe_text(page.ul),
      url               |-> job_url_of(job_id),
      posted_time       |-> safe_text(page.posted),
      applicants        |-> safe_text(applicants_tag_of(page)) ]

Pages ==
    [ h2         : {Absent, Element("title")},
      div        : {Absent, Element("description")},
      ul         : {Absent, Element("criteria")},
      a          : {Absent, Anchor("org", "org-url"), Anchor("org", NoneValue)},
      posted     : {Absent, Element("2 days ago")},
      figcaption : {Absent, Element("over 200 applicants")},
      span       : {Absent, Element("25 applicants")} ]

\* The page the detail endpoint serves for every identifier in the pipeline runs.
FullPage ==
    [ h2         |-> Element("title"),
      div        |-> Element("description"),
      ul         |-> Element("criteria"),
      a          |-> Anchor("org", "org-url"),
      posted     |-> Element("2 days ago"),
      figcaption |-> Element("over 200 applicants"),
      span       |-> Absent ]

Ids == 1001..(1000 + MaxIds)

\* The identifiers 1001 .. 1000+n in order.
IdList(n) == [i \in 1..n |-> 1000 + i]

----------------------------------------------------------------------------
(* Files: json.dump and json.load *)

NoFile == [exists |-> FALSE, text |-> <<>>]

File(text) == [exists |-> TRUE, text |-> text]

Punct(c) == [t |-> c]

Obj(v) == [t |-> "obj", v |-> v]

RECURSIVE DumpItems(_)
DumpItems(list) ==
    IF list = <<>> THEN <<>>
    ELSE IF Len(list) = 1 THEN <<Obj(list[1])>>
    ELSE <<Obj(list[1]), Punct(",")>> \o DumpItems(Tail(list))

\* json.dump(list, f): the text of a JSON array.
Dump(list) == <<Punct("[")>> \o DumpItems(list) \o <<Punct("]")>>

\* Whether json.load accepts the text as a JSON array.
WellFormed(text) ==
    LET n == Len(text) IN
    /\ n >= 2
    /\ text[1].t = "["
    /\ text[n].t = "]"
    /\ \/ n = 2
       \/ /\ n % 2 = 1
          /\ \A i \in 2..(n - 1) : text[i].t = (IF i % 2 = 0 THEN "obj" ELSE ",")

\* The value json.load returns for a well-formed text.
Parse(text) == [i \in 1..((Len(text) - 1) \div 2) |-> text[2 * i].v]

\* open(path, "a") in place of "w": what the file held stays.
OpenForAppend(file) == File(file.text)

\* open(path, "w"): the file exists and is empty, whatever it held.
OpenForWrite(file) == File(<<>>)

\* Writing to the open file and closing it: the text follows what the file holds.
WriteText(file, text) == File(file.text \o text)

\* job_search.py 19-27: a missing or malformed file loads as the empty list.
LoadStore(file) ==
    IF ~file.exists THEN <<>>
    ELSE IF WellFormed(file.text) THEN Parse(file.text)
    ELSE <<>>

----------------------------------------------------------------------------
(* Structured generation: the model answers and their validation *)

\* The planner's answer: ok says whether it is JSON of the QueryOutput shape.
QueryList(n) == [i \in 1..n |-> i]

PlannerAnswers ==
    {[ok |-> FALSE, queries |-> <<>>]}
        \cup {[ok |-> TRUE, queries |-> QueryList(n)] : n \in 0..MaxQueries}

NoAnswer == [ok |-> TRUE, queries |-> <<>>]

\* The planner's answer taken as it comes, unvalidated.
QueryOutputUnchecked(raw) == TRUE

\* job_search_AI.py 54-56, 111: QueryOutput.model_validate_json.
QueryOutputValid(raw) == raw.ok

\* The summarizer's answer.
StubSummary == [key_requirements |-> <<"MSc">>, role_details |-> <<"research">>]

SummaryAnswers == {[ok |-> TRUE, value |-> StubSummary], [ok |-> FALSE, value |-> StubSummary]}

\* job_search_AI.py 65-67, 185: JobSummary.model_validate_json.
JobSummaryValid(raw) == raw.ok

\* The classifier's answer: typed says whether it is JSON with a bool, a str and a
\* number in the three fields; confidence is in tenths.
Confidences == {-5, 0, 7, 10, 15}

Verdict(c) == [relevant |-> (c >= 5), confidence |-> c, explanation |-> "why"]

Verdicts == {Verdict(c) : c \in Confidences}

\* job_search_AI.py 59-62, 159: RelevanceResult.model_validate_json. The class
\* declares the three field types and nothing else.
RelevanceResultValid(raw) == raw.typed

\* job_search_AI.py 218-231: {**job_data, "summary": ..., "relevance": ...}
EnrichedJob(job_data, s, r) ==
    [ summary   |-> [key_requirements |-> s.key_requirements,
                     role_details |-> s.role_details],
      relevance |-> [relevant |-> r.relevant,
                     confidence |-> r.confidence,
                     explanation |-> r.explanation] ] @@ job_data

----------------------------------------------------------------------------
(* Initial states *)

\* Stores an earlier run can have left: none, a saved list, or a save cut short.
PriorLists == UNION {[1..n -> {ExtractRecord(1001, FullPage)}] : n \in 0..MaxPrior}

JobsFiles == {NoFile, File(<<>>), File(<<Punct("[")>>)} \cup {File(Dump(l)) : l \in PriorLists}

StaleJob == EnrichedJob(ExtractRecord(1001, FullPage), StubSummary, Verdict(7))

ResultFiles == {NoFile, File(Dump(<<StaleJob>>))}

\* The state before line 191, with the environment drawn from the given sets.
Start(position, plan, pending, budget, files, results, pages, verdicts) ==
    /\ pc = position
    /\ error = ""
    /\ query_response = NoAnswer
    /\ queries = plan
    /\ start_index = 0
    /\ qi = 1
    /\ id_lists \in pending
    /\ response = HTTP_OK
    /\ job_info_lists = <<>>
    /\ jobs_summary = <<>>
    /\ ji = 1
    /\ summary = StubSummary
    /\ jobsFile \in files
    /\ resultFile \in results
    /\ listing_ids \in {IdList(m) : m \in 0..MaxIds}
    /\ model_verdict \in verdicts
    /\ faults = budget
    /\ requests = 0
    /\ model_calls = 0
    /\ jobsFile0 = jobsFile
    /\ resultFile0 = resultFile
    /\ jobs_loaded = <<>>
    /\ jobsFile_before = jobsFile
    /\ detail_page \in pages

\* A full run in which every HTTP request is answered with 200.
Init == Start("plan", <<>>, {<<>>}, 0, JobsFiles, ResultFiles, {FullPage}, Verdicts)

\* A run of the scrape stage in which up to MaxFaults requests fail.
InitScrape ==
    Start("plan", <<>>, {<<>>}, MaxFaults, JobsFiles, {NoFile}, {FullPage}, {Verdict(7)})

scrapeVars == <<start_index, qi, id_lists, response, job_info_lists, jobsFile,
                faults, requests, jobs_loaded, jobsFile_before>>

enrichVars == <<jobs_summary, ji, summary, resultFile>>

envVars == <<listing_ids, model_verdict, jobsFile0, resultFile0, detail_page>>

----------------------------------------------------------------------------
(* PLAN: job_search_AI.py 191-193, generate_queries 105-112 *)

GenerateQueries ==
    /\ pc = "plan"
    /\ \E raw \in PlannerAnswers :
        /\ query_response' = raw
        /\ model_calls' = model_calls + 1
        /\ IF QueryOutputValid(raw)
           THEN /\ queries' = raw.queries
                /\ pc' = "scrape"
                /\ error' = error
           ELSE /\ queries' = queries
                /\ pc' = "aborted"
                /\ error' = "ModelError"
    /\ UNCHANGED <<scrapeVars, enrichVars, envVars>>

----------------------------------------------------------------------------
(* SCRAPE: get_job_offers 116-118 and scrape_linkedin_jobs *)

\* A batch that starts from an empty list whatever the file holds.
LoadNothing == <<>>

\* job_search.py 19-27: the list the batch starts from.
LoadExisting == LoadStore(jobsFile)

\* A listing response parsed whatever its status.
ListingAcceptedAlways(status) == TRUE

\* job_search.py 38: whether the listing response is parsed for identifiers.
ListingAccepted(status) == status = HTTP_OK

\* job_search.py 56: whether the detail response is parsed for a record.
DetailAccepted(status) == status = HTTP_OK

\* A range that also takes the offset MAX_SCRAPE itself.
MoreBatchesInclusive(i) == i + PAGE_STEP <= MAX_SCRAPE

\* job_search_AI.py 117: whether range(0, MAX_SCRAPE, 25) holds an offset after i.
MoreBatches(i) == i + PAGE_STEP < MAX_SCRAPE

Statuses == {HTTP_OK, 500}

\* The position after query number q is finished (the for loop of line 29).
AfterQuery(q) == IF q + 1 > Len(queries) THEN "save_open" ELSE "listing"

\* job_search.py 19-27, entered once per offset by get_job_offers.
ScrapeLoad ==
    /\ pc = "scrape"
    /\ job_info_lists' = LoadExisting
    /\ jobs_loaded' = LoadExisting
    /\ qi' = 1
    /\ id_lists' = <<>>
    /\ pc' = AfterQuery(0)
    /\ UNCHANGED <<error, query_response, queries, start_index, response, jobsFile,
                   faults, requests, jobsFile_before, model_calls, enrichVars, envVars>>

\* job_search.py 29-51: one listing request and the identifiers of its page.
FetchListing ==
    /\ pc = "listing"
    /\ \E status \in Statuses :
        /\ status # HTTP_OK => faults > 0
        /\ faults' = IF status = HTTP_OK THEN faults ELSE faults - 1
        /\ response' = status
        /\ requests' = requests + 1
        /\ IF ListingAccepted(status) /\ listing_ids # <<>>
           THEN /\ id_lists' = listing_ids
                /\ qi' = qi
                /\ pc' = "detail"
           ELSE /\ id_lists' = <<>>
                /\ qi' = qi + 1
                /\ pc' = AfterQuery(qi)
    /\ UNCHANGED <<error, query_response, queries, start_index, job_info_lists, jobsFile,
                   jobs_loaded, jobsFile_before, model_calls, enrichVars, envVars>>

\* job_search.py 53-89: one detail request and the record appended for it.
FetchDetail ==
    /\ pc = "detail"
    /\ \E status \in Statuses :
        /\ status # HTTP_OK => faults > 0
        /\ faults' = IF status = HTTP_OK THEN faults ELSE faults - 1
        /\ response' = status
        /\ requests' = requests + 1
        /\ job_info_lists' =
              IF DetailAccepted(status)
              THEN Append(job_info_lists, ExtractRecord(Head(id_lists), detail_page))
              ELSE job_info_lists
    /\ id_lists' = Tail(id_lists)
    /\ IF Tail(id_lists) = <<>>
       THEN qi' = qi + 1 /\ pc' = AfterQuery(qi)
       ELSE qi' = qi /\ pc' = "detail"
    /\ UNCHANGED <<error, query_response, queries, start_index, jobsFile,
                   jobs_loaded, jobsFile_before, model_calls, enrichVars, envVars>>

\* job_search.py 92: open(..., "w") leaves the file empty.
SaveOpen ==
    /\ pc = "save_open"
    /\ jobsFile_before' = jobsFile
    /\ jobsFile' = OpenForWrite(jobsFile)
    /\ pc' = "save_dump"
    /\ UNCHANGED <<error, query_response, queries, start_index, qi, id_lists, response,
                   job_info_lists, faults, requests, jobs_loaded, model_calls,
                   enrichVars, envVars>>

\* job_search.py 93: json.dump and the close of the with-block.
SaveDump ==
    /\ pc = "save_dump"
    /\ jobsFile' = WriteText(jobsFile, Dump(job_info_lists))
    /\ pc' = "saved"
    /\ UNCHANGED <<error, query_response, queries, start_index, qi, id_lists, response,
                   job_info_lists, faults, requests, jobs_loaded, jobsFile_before,
                   model_calls, enrichVars, envVars>>

\* job_search.py 95 and job_search_AI.py 117: the next offset, or the end of the loop.
NextBatch ==
    /\ pc = "saved"
    /\ IF MoreBatches(start_index)
       THEN start_index' = start_index + PAGE_STEP /\ pc' = "scrape"
       ELSE start_index' = start_index /\ pc' = "load"
    /\ UNCHANGED <<error, query_response, queries, qi, id_lists, response, job_info_lists,
                   jobsFile, faults, requests, jobs_loaded, jobsFile_before,
                   model_calls, enrichVars, envVars>>

----------------------------------------------------------------------------
(* LOAD and ENRICH: job_search_AI.py 200-234 *)

\* The position before job number j of the list (the for loop of line 206).
BeforeJob(j) == IF j > Len(job_info_lists) THEN "done" ELSE "summarize"

\* job_search_AI.py 200-204: json.load with no handler, and jobs_summary = [].
LoadJobs ==
    /\ pc = "load"
    /\ IF jobsFile.exists /\ WellFormed(jobsFile.text)
       THEN /\ job_info_lists' = Parse(jobsFile.text)
            /\ jobs_summary' = <<>>
            /\ ji' = 1
            /\ pc' = IF Parse(jobsFile.text) = <<>> THEN "done" ELSE "summarize"
            /\ error' = error
       ELSE /\ UNCHANGED <<job_info_lists, jobs_summary, ji>>
            /\ pc' = "aborted"
            /\ error' = IF jobsFile.exists THEN "JSONDecodeError" ELSE "FileNotFoundError"
    /\ UNCHANGED <<query_response, queries, start_index, qi, id_lists, response, jobsFile,
                   faults, requests, jobs_loaded, jobsFile_before, model_calls,
                   summary, resultFile, envVars>>

\* job_search_AI.py 207, get_summary 177-185.
Summarize ==
    /\ pc = "summarize"
    /\ model_calls' = model_calls + 1
    /\ \E raw \in SummaryAnswers :
        IF JobSummaryValid(raw)
        THEN summary' = raw.value /\ pc' = "classify" /\ error' = error
        ELSE summary' = summary /\ pc' = "aborted" /\ error' = "ModelError"
    /\ UNCHANGED <<query_response, queries, scrapeVars, jobs_summary, ji, resultFile, envVars>>

\* The classifier's answers for one call: the model's verdict or text of another shape.
RelevanceAnswers ==
    { [typed |-> TRUE] @@ model_verdict, [typed |-> FALSE] @@ model_verdict }

\* job_search_AI.py 211-231, is_job_relevant 154-160, and the append.
Classify ==
    /\ pc = "classify"
    /\ model_calls' = model_calls + 1
    /\ \E raw \in RelevanceAnswers :
        IF RelevanceResultValid(raw)
        THEN /\ jobs_summary' =
                  Append(jobs_summary, EnrichedJob(job_info_lists[ji], summary, raw))
             /\ pc' = "result_open"
             /\ error' = error
        ELSE /\ jobs_summary' = jobs_summary
             /\ pc' = "aborted"
             /\ error' = "ModelError"
    /\ UNCHANGED <<query_response, queries, scrapeVars, ji, summary, resultFile, envVars>>

\* job_search_AI.py 233: open(..., "w") leaves the file empty.
ResultOpen ==
    /\ pc = "result_open"
    /\ resultFile' = OpenForWrite(resultFile)
    /\ pc' = "result_dump"
    /\ UNCHANGED <<error, query_response, queries, scrapeVars, model_calls,
                   jobs_summary, ji, summary, envVars>>

\* job_search_AI.py 234: json.dump and the close of the with-block; then the next job.
ResultDump ==
    /\ pc = "result_dump"
    /\ resultFile' = WriteText(resultFile, Dump(jobs_summary))
    /\ ji' = ji + 1
    /\ pc' = BeforeJob(ji + 1)
    /\ UNCHANGED <<error, query_response, queries, scrapeVars, model_calls,
                   jobs_summary, summary, envVars>>

----------------------------------------------------------------------------
Next ==
    \/ GenerateQueries
    \/ ScrapeLoad
    \/ FetchListing
    \/ FetchDetail
    \/ SaveOpen
    \/ SaveDump
    \/ NextBatch
    \/ LoadJobs
    \/ Summarize
    \/ Classify
    \/ ResultOpen
    \/ ResultDump

Spec == Init /\ [][Next]_vars

\* The run up to the return of get_job_offers.
NextScrape ==
    \/ GenerateQueries
    \/ ScrapeLoad
    \/ FetchListing
    \/ FetchDetail
    \/ SaveOpen
    \/ SaveDump
    \/ NextBatch

SpecScrape == InitScrape /\ [][NextScrape]_vars

\* One detail request of scrape_linkedin_jobs, for any page the endpoint may serve.
InitDetail ==
    Start("detail", QueryList(1), {<<i>> : i \in Ids}, MaxFaults, {NoFile}, {NoFile},
          Pages, {Verdict(7)})

SpecDetail == InitDetail /\ [][FetchDetail]_vars

----------------------------------------------------------------------------
(* Readings of the state used by the properties *)

IsPrefix(a, b) == Len(a) <= Len(b) /\ SubSeq(b, 1, Len(a)) = a

\* The range(0, MAX_SCRAPE, 25) of get_job_offers has this many offsets.
Batches == (MAX_SCRAPE + PAGE_STEP - 1) \div PAGE_STEP

\* The process is in the enrich loop, or stopped in it.
InEnrich ==
    \/ pc \in {"summarize", "classify", "result_open", "result_dump", "done"}
    \/ pc = "aborted" /\ error = "ModelError" /\ QueryOutputValid(query_response)

\* A store that is absent, an empty file, or the empty list.
EmptyStore(file) == ~file.exists \/ file.text = <<>> \/ file.text = Dump(<<>>)

TextFields == {"title", "organisation_name", "description", "criteria",
               "posted_time", "applicants"}

RecordKeys == TextFields \cup {"organisation_url", "url"}

\* The element a text field of the record is read from.
ElementOf(page, f) ==
    CASE f = "title" -> page.h2
      [] f = "organisation_name" -> page.a
      [] f = "description" -> page.div
      [] f = "criteria" -> page.ul
      [] f = "posted_time" -> page.posted
      [] f = "applicants" -> applicants_tag_of(page)

\* The result store the stubbed run of m identifiers produces when each of the
\* given number of batches appends the m records once.
StubbedResult(batches) ==
    LET m == Len(listing_ids) IN
    [i \in 1..(batches * m) |->
        EnrichedJob(ExtractRecord(listing_ids[((i - 1) % m) + 1], FullPage),
                    StubSummary, model_verdict)]

\* The run is the end-to-end scenario: one query, every request answered, both
\* stores empty at the start, and the pipeline at its end.
StubbedRunDone ==
    /\ pc = "done"
    /\ Len(queries) = 1
    /\ faults = 0
    /\ EmptyStore(jobsFile0)
    /\ EmptyStore(resultFile0)

----------------------------------------------------------------------------
(* Properties *)

\* C1: in the ENRICH stage, once job k >= 1 has been persisted and at every
\* point before job k+1 is persisted where the process may be interrupted, the
\* result store on disk holds exactly the k enriched entries of stored jobs
\* 1..k (k = ji - 1), in stored order. (The claim's case k = 0 is left out of
\* this statement: there the file of an earlier run is still on disk.)
C1_Checkpoint ==
    (InEnrich /\ ji > 1) =>
        /\ Len(LoadStore(resultFile)) = ji - 1
        /\ LoadStore(resultFile) = SubSeq(jobs_summary, 1, ji - 1)
        /\ \A k \in 1..(ji - 1) :
              LoadStore(resultFile)[k] =
                  EnrichedJob(job_info_lists[k], StubSummary, model_verdict)

\* C2: a ModelError raised while summarizing or classifying a job drops that job
\* only: nothing is added for it and the loop goes on to the next job (or DONE).
C2_ModelErrorDropsOneJob ==
    [][(pc \in {"summarize", "classify"} /\ error' = "ModelError")
          => /\ pc' = BeforeJob(ji + 1)
             /\ ji' = ji + 1
             /\ jobs_summary' = jobs_summary]_vars

\* C3: at every point of the SCRAPE stage a fresh load of the scraped-jobs store
\* returns the collection as it was before the batch in progress or as it is
\* after it.
C3_AtomicSave ==
    pc \in {"listing", "detail", "save_open", "save_dump", "saved"} =>
        \/ LoadStore(jobsFile) = jobs_loaded
        \/ pc = "saved" /\ LoadStore(jobsFile) = job_info_lists

\* C4: a non-200 listing response adds no identifier and no record, raises
\* nothing, and the batch goes on: to the next query, or to the save after the
\* last one.
C4_ListingFailureSkipsQuery ==
    [][(pc = "listing" /\ response' # HTTP_OK)
          => /\ id_lists' = <<>>
             /\ job_info_lists' = job_info_lists
             /\ error' = ""
             /\ qi' = qi + 1
             /\ pc' = (IF qi < Len(queries) THEN "listing" ELSE "save_open")]_vars

\* C5: a detail page fetched with 200 yields a record with the eight keys, in
\* which every field whose element or attribute is absent is "Unknown" and no
\* field is None.
C5_UnknownSentinel ==
    (pc = "save_open" /\ response = HTTP_OK) =>
        LET rec == job_info_lists[1] IN
        /\ Len(job_info_lists) = 1
        /\ DOMAIN rec = RecordKeys
        /\ \A f \in TextFields :
              /\ rec[f] # NoneValue
              /\ ~ElementOf(detail_page, f).present => rec[f] = "Unknown"
        /\ rec.organisation_url # NoneValue
        /\ (~detail_page.a.present \/ detail_page.a.href = NoneValue)
              => rec.organisation_url = "Unknown"

\* C6: a save that starts from an empty or nonexistent store is read back by a
\* fresh load as exactly the records appended, in order, duplicates included.
C6_RoundTrip ==
    (pc = "saved" /\ EmptyStore(jobsFile_before)) =>
        /\ jobs_loaded = <<>>
        /\ LoadStore(jobsFile) = job_info_lists

\* C7 as stated: the end-to-end scenario ends with exactly m entries.
C7_OneEntryPerIdentifier ==
    StubbedRunDone => LoadStore(resultFile) = StubbedResult(1)

\* C7 as amended: the end-to-end scenario ends with the m stubbed entries once
\* per pagination offset, Batches * m in all.
C7_OneEntryPerIdentifierPerOffset ==
    StubbedRunDone => LoadStore(resultFile) = StubbedResult(Batches)

\* C8: every verdict the pipeline stores has a confidence in [0,1] (0..10 tenths).
C8_ConfidenceInRange ==
    \A k \in 1..Len(jobs_summary) : jobs_summary[k].relevance.confidence \in 0..10

\* C9: a planner answer that fails validation ends the run there: no request,
\* no further model call, no step left to take, both stores as they were.
C9_PlannerErrorAborts ==
    (pc # "plan" /\ ~query_response.ok) =>
        /\ pc = "aborted"
        /\ error = "ModelError"
        /\ requests = 0
        /\ model_calls = 1
        /\ jobsFile = jobsFile0
        /\ resultFile = resultFile0
        /\ ~ENABLED Next

----------------------------------------------------------------------------
(* Reachable states in which the properties' cases happen *)

C4_Witness ==
    /\ pc = "listing"
    /\ requests = 1
    /\ response # HTTP_OK
    /\ qi = 2

C6_Witness ==
    /\ pc = "saved"
    /\ EmptyStore(jobsFile_before)
    /\ Len(LoadStore(jobsFile)) >= 2
    /\ LoadStore(jobsFile)[1] = LoadStore(jobsFile)[Len(LoadStore(jobsFile))]

C7_Witness ==
    /\ StubbedRunDone
    /\ Len(listing_ids) = 2
    /\ Len(LoadStore(resultFile)) = 10

C9_Witness ==
    /\ pc = "aborted"
    /\ ~query_response.ok
    /\ LoadStore(jobsFile) # <<>>
    /\ resultFile.exists

====
